---- MODULE Spec2Model ----
(***************************************************************************)
(* Model of apple-metal-hud (src/src/index.ts): the DeviceManager parsers, *)
(* the two numbered-menu selections, the launcher and the main action.     *)
(*                                                                         *)
(* A JavaScript string is a sequence of one-character strings; indices are *)
(* 0-based as in the source (indexOf, substring).  The value `undefined`   *)
(* of an optional field is Undefined.                                      *)
(***************************************************************************)
EXTENDS Integers, Sequences, FiniteSets, TLC

VARIABLES
  pc,                 \* position of the flow being run
  options,            \* [launch, list]: the parsed command-line flags
  output,             \* raw text last captured from an external command
  devices,            \* DeviceInfo[] of this run
  applications,       \* ApplicationInfo[] of this run
  selectedIdentifier, \* main: selectedIdentifier
  selectedApp,        \* main: selectedApp
  answer,             \* the line last answered to a prompt
  cmds,               \* external commands issued through execSync, in order
  stdout,             \* console.log lines that matter, in order
  stderr,             \* console.error lines, in order
  thrown,             \* the error that reached main's catch, or NoError
  exitCode            \* process exit status, -1 while the process runs

vars == <<pc, options, output, devices, applications, selectedIdentifier,
          selectedApp, answer, cmds, stdout, stderr, thrown, exitCode>>

----------------------------------------------------------------------------
(* Bounds of the model                                                     *)

\* most lines of one process listing
MaxAppLines == 3
\* most lines of one device listing
MaxDeviceLines == 4
\* most characters of an answered line
MaxAnswerLen == 3
\* most records offered by a menu
MaxRecords == 3

----------------------------------------------------------------------------
(* JavaScript values and string primitives                                 *)

Undefined == <<"undefined">>
\* the null a failed String.prototype.match returns
NoMatch == [matched |-> FALSE]

WhiteSpace == {" ", "\t", "\r", "\n"}
Digits == <<"0","1","2","3","4","5","6","7","8","9">>
UpperCase == <<"A","B","C","D","E","F","G","H","I","J","K","L","M","N","O","P","Q","R","S",
               "T","U","V","W","X","Y","Z">>
LowerCase == <<"a","b","c","d","e","f","g","h","i","j","k","l","m","n","o","p","q","r","s",
               "t","u","v","w","x","y","z">>

Range(s) == {s[i] : i \in DOMAIN s}

IsDigit(c) == c \in Range(Digits)

DigitValue(c) == (CHOOSE i \in DOMAIN Digits : Digits[i] = c) - 1

\* the /i flag: letters compare by their lower-case form
LowerOf ==
  [c \in Range(UpperCase) |->
     LowerCase[CHOOSE i \in DOMAIN UpperCase : UpperCase[i] = c]]

ToLower(c) == IF c \in DOMAIN LowerOf THEN LowerOf[c] ELSE c

LowerStr(s) == [i \in DOMAIN s |-> ToLower(s[i])]

\* String.prototype.trim
RECURSIVE TrimStart(_)
TrimStart(s) ==
  IF s # <<>> /\ Head(s) \in WhiteSpace THEN TrimStart(Tail(s)) ELSE s

RECURSIVE TrimEnd(_)
TrimEnd(s) ==
  IF s # <<>> /\ s[Len(s)] \in WhiteSpace
  THEN TrimEnd(SubSeq(s, 1, Len(s) - 1))
  ELSE s

Trim(s) == TrimEnd(TrimStart(s))

\* sub occurs in s at 0-based offset i
StartsAt(s, sub, i) ==
  /\ i >= 0
  /\ i + Len(sub) <= Len(s)
  /\ \A k \in 1..Len(sub) : s[i + k] = sub[k]

\* String.prototype.indexOf: offset of the first occurrence, or -1
IndexOf(s, sub) ==
  LET hits == {i \in 0..(Len(s) - Len(sub)) : StartsAt(s, sub, i)}
  IN IF hits = {} THEN -1 ELSE CHOOSE i \in hits : \A j \in hits : i <= j

\* String.prototype.includes
Includes(s, sub) == IndexOf(s, sub) # -1

Clamp(n, len) == IF n < 0 THEN 0 ELSE IF n > len THEN len ELSE n

\* String.prototype.substring(start, end): both clamped to [0, length],
\* swapped when start > end
Substring(s, start, end) ==
  LET a == Clamp(start, Len(s))
      b == Clamp(end, Len(s))
      lo == IF a <= b THEN a ELSE b
      hi == IF a <= b THEN b ELSE a
  IN SubSeq(s, lo + 1, hi)

\* String.prototype.split("\n")
RECURSIVE SplitLines(_)
SplitLines(s) ==
  LET i == IndexOf(s, <<"\n">>)
  IN IF i = -1
     THEN <<s>>
     ELSE <<SubSeq(s, 1, i)>> \o SplitLines(SubSeq(s, i + 2, Len(s)))

\* the text whose split("\n") is ls (how the external tool's output is built)
RECURSIVE JoinLines(_)
JoinLines(ls) ==
  IF ls = <<>> THEN <<>>
  ELSE IF Len(ls) = 1 THEN ls[1]
  ELSE ls[1] \o <<"\n">> \o JoinLines(Tail(ls))

\* a template literal's ${v}
Interpolate(v) == IF v = Undefined THEN <<"u","n","d","e","f","i","n","e","d">> ELSE v

\* all sequences over S of length at most n
SeqsUpTo(S, n) == UNION {[1..k -> S] : k \in 0..n}

----------------------------------------------------------------------------
(* parseApplicationOutput                                                  *)

BundlePrefix == <<"B","u","n","d","l","e","/","A","p","p","l","i","c","a","t","i","o","n","/">>
ContainerPrefix == <<"/","p","r","i","v","a","t","e","/","v","a","r","/","c","o","n","t","a",
                     "i","n","e","r","s","/","B","u","n","d","l","e","/","A","p","p","l","i",
                     "c","a","t","i","o","n","/">>
DotApp == <<".","a","p","p">>

\* the run of characters other than "/" that starts at 0-based offset i
RECURSIVE NonSlashRun(_, _)
NonSlashRun(s, i) ==
  IF i < Len(s) /\ s[i + 1] # "/"
  THEN <<s[i + 1]>> \o NonSlashRun(s, i + 1)
  ELSE <<>>

\* prefix([^/]+)/([^/]+\.app) attempted at offset p: the groups, or NoMatch.
\* [^/]+ is greedy, so the second group ends at the last ".app" of its
\* segment that has a character before it.
BundleMatchAt(s, prefix, p) ==
  IF ~StartsAt(s, prefix, p) THEN NoMatch
  ELSE
    LET q == p + Len(prefix)
        g1 == NonSlashRun(s, q)
        r == q + Len(g1) + 1
        seg == NonSlashRun(s, r)
        ends == {k \in 1..(Len(seg) - Len(DotApp)) : StartsAt(seg, DotApp, k)}
        k == CHOOSE x \in ends : \A y \in ends : y <= x
    IN IF g1 = <<>> \/ ~StartsAt(s, <<"/">>, q + Len(g1)) \/ ends = {}
       THEN NoMatch
       ELSE [matched |-> TRUE,
             bundleId |-> g1,
             appName |-> SubSeq(seg, 1, k + Len(DotApp)),
             whole |-> SubSeq(s, p + 1, r + k + Len(DotApp))]

\* String.prototype.match without the g flag: the leftmost match
BundleMatch(s, prefix) ==
  LET hits == {p \in 0..Len(s) : BundleMatchAt(s, prefix, p).matched}
  IN IF hits = {} THEN NoMatch
     ELSE BundleMatchAt(s, prefix, CHOOSE p \in hits : \A j \in hits : p <= j)

RECURSIVE DigitRun(_)
DigitRun(s) ==
  IF s # <<>> /\ IsDigit(Head(s)) THEN <<Head(s)>> \o DigitRun(Tail(s)) ELSE <<>>

\* /^\s*(\d+)/
PidMatch(s) ==
  LET d == DigitRun(TrimStart(s))
  IN IF d = <<>> THEN NoMatch ELSE [matched |-> TRUE, digits |-> d]

\* the record one matching line gives (lines 101-121)
ApplicationOfLine(trimmedLine) ==
  LET bundleMatch == BundleMatch(trimmedLine, BundlePrefix)
      pathMatch == BundleMatch(trimmedLine, ContainerPrefix)
      pidMatch == PidMatch(trimmedLine)
  IN [bundleId |-> bundleMatch.bundleId,
      displayName |-> bundleMatch.appName,
      pid |-> IF pidMatch.matched THEN pidMatch.digits ELSE Undefined,
      fullPath |-> IF pathMatch.matched THEN pathMatch.whole ELSE Undefined]

HasBundleId(apps, bundleId) == \E i \in DOMAIN apps : apps[i].bundleId = bundleId

\* a faulty variant: a later line with a known bundle identifier replaces the record
PushApplicationLastWins(apps, rec) ==
  IF HasBundleId(apps, rec.bundleId)
  THEN [i \in DOMAIN apps |-> IF apps[i].bundleId = rec.bundleId THEN rec ELSE apps[i]]
  ELSE Append(apps, rec)

\* lines 115-122: push unless the bundle identifier is already present
PushApplication(apps, rec) ==
  IF ~HasBundleId(apps, rec.bundleId) THEN Append(apps, rec) ELSE apps

RECURSIVE ParseApplicationLines(_, _)
ParseApplicationLines(lines, apps) ==
  IF lines = <<>> THEN apps
  ELSE
    LET trimmedLine == Trim(Head(lines))
    IN IF trimmedLine = <<>> \/ ~BundleMatch(trimmedLine, BundlePrefix).matched
       THEN ParseApplicationLines(Tail(lines), apps)
       ELSE ParseApplicationLines(Tail(lines),
                                  PushApplication(apps, ApplicationOfLine(trimmedLine)))

parseApplicationOutput(text) == ParseApplicationLines(SplitLines(text), <<>>)

\* lines the process listing can hold
AppLines ==
  { <<"7","1"," ","/","p","r","i","v","a","t","e","/","v","a","r","/","c","o","n","t","a","i",
      "n","e","r","s","/","B","u","n","d","l","e","/","A","p","p","l","i","c","a","t","i","o",
      "n","/","A","1","/","G",".","a","p","p","/","G">>,
    <<"7","2"," ","/","p","r","i","v","a","t","e","/","v","a","r","/","c","o","n","t","a","i",
      "n","e","r","s","/","B","u","n","d","l","e","/","A","p","p","l","i","c","a","t","i","o",
      "n","/","A","1","/","G",".","a","p","p","/","P">>,
    <<" "," ","8","0"," ","/","p","r","i","v","a","t","e","/","v","a","r","/","c","o","n","t",
      "a","i","n","e","r","s","/","B","u","n","d","l","e","/","A","p","p","l","i","c","a","t",
      "i","o","n","/","B","2","/","H",".","x",".","a","p","p","/","H">>,
    <<"/","v","a","r","/","c","o","n","t","a","i","n","e","r","s","/","B","u","n","d","l","e",
      "/","A","p","p","l","i","c","a","t","i","o","n","/","A","1","/","K",".","a","p","p","/",
      "K">>,
    <<"9"," ","/","B","u","n","d","l","e","/","A","p","p","l","i","c","a","t","i","o","n","/",
      "C","3","/",".","a","p","p",".","a","p","p"," ","/","p","r","i","v","a","t","e","/","v",
      "a","r","/","c","o","n","t","a","i","n","e","r","s","/","B","u","n","d","l","e","/","A",
      "p","p","l","i","c","a","t","i","o","n","/","B","2","/","M",".","a","p","p">>,
    <<"5"," ","/","v","a","r","/","B","u","n","d","l","e","/","A","p","p","l","i","c","a","t",
      "i","o","n","/","B","2","/","N",".","a","p","p">>,
    <<"B","u","n","d","l","e","/","A","p","p","l","i","c","a","t","i","o","n","/","A","1","/",
      "b","i","n">>,
    <<"B","u","n","d","l","e","/","A","p","p","l","i","c","a","t","i","o","n","/","/","G",".",
      "a","p","p">>,
    <<" "," "," ">>,
    <<>> }

AppOutputs == {JoinLines(ls) : ls \in SeqsUpTo(AppLines, MaxAppLines)}

----------------------------------------------------------------------------
(* parseDeviceOutput: the tabular form                                     *)

\* line 324: the sliced identifier must be longer than this
IdentifierMinLength == 10

\* the offset added to headerLineIndex at line 311
HeaderSkip == 2

LabelName == <<"N","a","m","e">>
LabelIdentifier == <<"I","d","e","n","t","i","f","i","e","r">>
LabelState == <<"S","t","a","t","e">>
LabelModel == <<"M","o","d","e","l">>

\* lines 290-295
IsHeaderLine(line) ==
  /\ Includes(line, LabelName)
  /\ Includes(line, LabelIdentifier)
  /\ Includes(line, LabelState)
  /\ Includes(line, LabelModel)

\* lines 288-303: 0-based index of the first header line, or -1
HeaderLineIndex(lines) ==
  LET hits == {i \in 0..(Len(lines) - 1) : IsHeaderLine(lines[i + 1])}
  IN IF hits = {} THEN -1 ELSE CHOOSE i \in hits : \A j \in hits : i <= j

\* lines 297-300
HeaderColumns(line) ==
  [nameColStart |-> IndexOf(line, LabelName),
   identifierColStart |-> IndexOf(line, LabelIdentifier),
   stateColStart |-> IndexOf(line, LabelState),
   modelColStart |-> IndexOf(line, LabelModel)]

\* lines 345-352
extractPlatformFromModel(model) ==
  IF Includes(model, <<"i","P","h","o","n","e">>) THEN <<"i","O","S">>
  ELSE IF Includes(model, <<"i","P","a","d">>) THEN <<"i","P","a","d","O","S">>
  ELSE IF Includes(model, <<"W","a","t","c","h">>) THEN <<"w","a","t","c","h","O","S">>
  ELSE IF Includes(model, <<"A","p","p","l","e"," ","T","V">>) THEN <<"t","v","O","S">>
  ELSE IF Includes(model, <<"M","a","c">>) THEN <<"m","a","c","O","S">>
  ELSE <<"U","n","k","n","o","w","n">>

\* lines 318-320
SliceIdentifier(line, cols) ==
  Trim(Substring(line, cols.identifierColStart, cols.stateColStart))

\* a faulty variant: an identifier of exactly IdentifierMinLength characters passes
AcceptIdentifierAtLeast(identifier) ==
  identifier # <<>> /\ Len(identifier) >= IdentifierMinLength

\* line 324
AcceptIdentifier(identifier) ==
  identifier # <<>> /\ Len(identifier) > IdentifierMinLength

\* lines 317-331: the record a row gives
DeviceOfRow(line, cols) ==
  LET name == Trim(Substring(line, cols.nameColStart, cols.identifierColStart))
      identifier == SliceIdentifier(line, cols)
      state == Trim(Substring(line, cols.stateColStart, cols.modelColStart))
      model == Trim(Substring(line, cols.modelColStart, Len(line)))
  IN [identifier |-> identifier,
      name |-> IF name # <<>> THEN name ELSE Undefined,
      platform |-> extractPlatformFromModel(model),
      connectionType |-> IF Includes(state, <<"p","a","i","r","e","d">>) THEN <<"p","a","i","r","e","d">>
                                                        ELSE <<"a","v","a","i","l","a","b","l","e">>]

\* lines 311-337: the loop from 0-based index i on
RECURSIVE ParseRows(_, _, _, _)
ParseRows(lines, i, cols, devs) ==
  IF i >= Len(lines) THEN devs
  ELSE
    LET line == lines[i + 1]
    IN IF Trim(line) = <<>>
       THEN ParseRows(lines, i + 1, cols, devs)
       ELSE IF AcceptIdentifier(SliceIdentifier(line, cols))
       THEN ParseRows(lines, i + 1, cols, Append(devs, DeviceOfRow(line, cols)))
       ELSE ParseRows(lines, i + 1, cols, devs)

----------------------------------------------------------------------------
(* parseDeviceOutputLegacy                                                 *)

HexChars == Range(<<"A","B","C","D","E","F","a","b","c","d","e","f","0","1","2","3","4","5",
                    "6","7","8","9","-">>)
LineTerminators == {"\n", "\r"}

\* length of the run, from 0-based offset i, of characters that are in set
\* (member = TRUE) or outside it (member = FALSE)
RECURSIVE RunLength(_, _, _, _)
RunLength(s, i, set, member) ==
  IF i < Len(s) /\ ((s[i + 1] \in set) = member)
  THEN 1 + RunLength(s, i + 1, set, member)
  ELSE 0

\* \s*(class+) attempted at offset q; \s* is greedy and gives characters
\* back until the group can start
ValueAfter(s, q, set, member) ==
  LET w == RunLength(s, q, WhiteSpace, TRUE)
      starts == {g \in q..(q + w) : RunLength(s, g, set, member) > 0}
      g == CHOOSE x \in starts : \A y \in starts : y <= x
  IN IF starts = {} THEN NoMatch
     ELSE [matched |-> TRUE,
           value |-> SubSeq(s, g + 1, g + RunLength(s, g, set, member))]

\* /label\s*(class+)/i: the leftmost match
LabelMatch(s, label, set, member) ==
  LET low == LowerStr(s)
      lab == LowerStr(label)
      hits == {p \in 0..(Len(s) - Len(label)) :
                 /\ StartsAt(low, lab, p)
                 /\ ValueAfter(s, p + Len(label), set, member).matched}
  IN IF hits = {} THEN NoMatch
     ELSE ValueAfter(s, (CHOOSE p \in hits : \A j \in hits : p <= j) + Len(label),
                     set, member)

\* lines 362-365
identifierRegex(s) == LabelMatch(s, <<"I","d","e","n","t","i","f","i","e","r",":">>, HexChars, TRUE)
nameRegex(s) == LabelMatch(s, <<"N","a","m","e",":">>, LineTerminators, FALSE)
platformRegex(s) == LabelMatch(s, <<"P","l","a","t","f","o","r","m",":">>, LineTerminators, FALSE)
connectionRegex(s) == LabelMatch(s, <<"C","o","n","n","e","c","t","i","o","n"," ","T","y","p",
                                      "e",":">>, LineTerminators, FALSE)

\* line 367: currentDevice = {}
EmptyDevice ==
  [identifier |-> Undefined, name |-> Undefined,
   platform |-> Undefined, connectionType |-> Undefined]

\* a faulty variant: the identifier is assigned on the record already open
OpenDeviceKeepFields(currentDevice, identifier) ==
  [currentDevice EXCEPT !.identifier = identifier]

\* lines 380-382: a fresh record holding the identifier
OpenDevice(currentDevice, identifier) ==
  [EmptyDevice EXCEPT !.identifier = identifier]

\* lines 369-406
RECURSIVE LegacyLines(_, _, _)
LegacyLines(lines, devs, currentDevice) ==
  IF lines = <<>>
  THEN \* lines 409-411
       IF currentDevice.identifier # Undefined
       THEN Append(devs, currentDevice) ELSE devs
  ELSE
    LET trimmedLine == Trim(Head(lines))
        identifierMatch == identifierRegex(trimmedLine)
        nameMatch == nameRegex(trimmedLine)
        platformMatch == platformRegex(trimmedLine)
        connectionMatch == connectionRegex(trimmedLine)
    IN IF identifierMatch.matched
       THEN LegacyLines(Tail(lines),
                        IF currentDevice.identifier # Undefined
                        THEN Append(devs, currentDevice) ELSE devs,
                        OpenDevice(currentDevice, identifierMatch.value))
       ELSE IF currentDevice.identifier = Undefined
       THEN LegacyLines(Tail(lines), devs, currentDevice)
       ELSE IF nameMatch.matched
       THEN LegacyLines(Tail(lines), devs,
                        [currentDevice EXCEPT !.name = nameMatch.value])
       ELSE IF platformMatch.matched
       THEN LegacyLines(Tail(lines), devs,
                        [currentDevice EXCEPT !.platform = platformMatch.value])
       ELSE IF connectionMatch.matched
       THEN LegacyLines(Tail(lines), devs,
                        [currentDevice EXCEPT !.connectionType = connectionMatch.value])
       ELSE LegacyLines(Tail(lines), devs, currentDevice)

parseDeviceOutputLegacy(text) == LegacyLines(SplitLines(text), <<>>, EmptyDevice)

\* lines 276-340
parseDeviceOutput(text) ==
  LET lines == SplitLines(text)
      headerLineIndex == HeaderLineIndex(lines)
  IN IF headerLineIndex = -1
     THEN parseDeviceOutputLegacy(text)
     ELSE ParseRows(lines, headerLineIndex + HeaderSkip,
                    HeaderColumns(lines[headerLineIndex + 1]), <<>>)

\* lines the tabular device listing can hold
TableLines ==
  { <<"N","a","m","e"," ","I","d","e","n","t","i","f","i","e","r"," "," ","S","t","a","t","e",
      " "," "," "," "," ","M","o","d","e","l">>,
    <<"I","d","e","n","t","i","f","i","e","r"," ","S","t","a","t","e"," ","N","a","m","e"," ",
      "M","o","d","e","l">>,
    <<"-","-","-","-"," ","-","-","-","-","-","-","-","-","-","-","-"," ","-","-","-","-","-",
      "-","-","-","-"," ","-","-","-","-","-">>,
    <<"i","P","h"," "," ","0","0","0","0","8","1","1","0","-","A","B"," ","p","a","i","r","e",
      "d"," "," "," "," ","i","P","h","o","n","e"," ","1","5"," ","P","r","o">>,
    <<"P","a","d"," "," ","0","0","0","0","8","1","1","-","C","D"," "," ","a","v","a","i","l",
      "a","b","l","e"," ","i","P","a","d"," ","A","i","r">>,
    <<" "," "," "," "," ","1","1","1","1","2","2","2","2","-","E","F"," ","c","o","n","n","e",
      "c","t","e","d"," ","A","p","p","l","e"," ","W","a","t","c","h">>,
    <<" "," ">> }

TableOutputs == {JoinLines(ls) : ls \in SeqsUpTo(TableLines, MaxDeviceLines)}

\* lines the legacy device listing can hold
LegacyLineSet ==
  { <<"I","d","e","n","t","i","f","i","e","r",":"," ","0","A","B","-","1">>,
    <<" "," ","i","d","e","n","t","i","f","i","e","r",":","C","D","-","2","\r">>,
    <<"N","a","m","e",":"," ","P","h","o","n","e">>,
    <<"H","o","s","t","n","a","m","e",":"," ","P","a","d">>,
    <<"P","l","a","t","f","o","r","m",":"," ","i","O","S">>,
    <<"C","o","n","n","e","c","t","i","o","n"," ","T","y","p","e",":"," ","u","s","b">>,
    <<"N","a","m","e",":"," ","n"," ","I","d","e","n","t","i","f","i","e","r",":"," ","x","y",
      "z">>,
    <<"P","l","a","t","f","o","r","m",":"," ","p"," ","I","d","e","n","t","i","f","i","e","r",
      ":"," ","E","E">> }

LegacyOutputs == {JoinLines(ls) : ls \in SeqsUpTo(LegacyLineSet, MaxDeviceLines)}

----------------------------------------------------------------------------
(* Errors, console lines and the state of one run                          *)

Error(name, message) == [name |-> name, message |-> message, high |-> 0]

NoError == Error("NoError", <<>>)

\* selectedApp before an application is selected
NoApplication ==
  [bundleId |-> Undefined, displayName |-> Undefined,
   pid |-> Undefined, fullPath |-> Undefined]

\* lines 157 and 452
NothingToSelect == Error("NothingToSelect", <<>>)

\* lines 199-201 and 488-490: the message names the range 1..n
InvalidSelection(n) == [name |-> "InvalidSelection", message |-> <<>>, high |-> n]

\* line 228
MissingPath == Error("MissingPath", <<>>)

\* the error execSync throws when the command fails
ExecError(message) == Error("ExecError", message)

State ==
  [pc |-> pc, options |-> options, output |-> output, devices |-> devices,
   applications |-> applications, selectedIdentifier |-> selectedIdentifier,
   selectedApp |-> selectedApp, answer |-> answer, cmds |-> cmds,
   stdout |-> stdout, stderr |-> stderr, thrown |-> thrown,
   exitCode |-> exitCode]

Apply(st) ==
  /\ pc' = st.pc
  /\ options' = st.options
  /\ output' = st.output
  /\ devices' = st.devices
  /\ applications' = st.applications
  /\ selectedIdentifier' = st.selectedIdentifier
  /\ selectedApp' = st.selectedApp
  /\ answer' = st.answer
  /\ cmds' = st.cmds
  /\ stdout' = st.stdout
  /\ stderr' = st.stderr
  /\ thrown' = st.thrown
  /\ exitCode' = st.exitCode

\* console.log / console.error of one line
Log(st, tag, text) ==
  [st EXCEPT !.stdout = Append(@, [tag |-> tag, text |-> text])]

LogError(st, tag, text) ==
  [st EXCEPT !.stderr = Append(@, [tag |-> tag, text |-> text])]

\* execSync(command): the command is issued and its outcome recorded
Exec(st, kind, command, res) ==
  [st EXCEPT !.cmds = Append(@, [kind |-> kind, command |-> command,
                                 ok |-> res.ok, message |-> res.message])]

\* the action's promise settles without an error: the process ends with 0
Return(st) == [st EXCEPT !.pc = "exited", !.exitCode = 0]

\* a faulty variant: the error line is printed but the status stays 0
TopLevelCatchNoExit(st, error) ==
  [LogError(st, "TopError", error.message)
     EXCEPT !.pc = "exited", !.thrown = error, !.exitCode = 0]

\* lines 572-575
TopLevelCatch(st, error) ==
  [LogError(st, "TopError", error.message)
     EXCEPT !.pc = "exited", !.thrown = error, !.exitCode = 1]

----------------------------------------------------------------------------
(* selectDevice and selectApplication                                      *)

DecimalDigits == Range(Digits)
HexDigits == Range(<<"0","1","2","3","4","5","6","7","8","9","a","b","c","d","e","f","A","B",
                     "C","D","E","F">>)

HexValue(c) ==
  IF IsDigit(c) THEN DigitValue(c)
  ELSE 10 + ((CHOOSE i \in 1..6 : <<"a","b","c","d","e","f">>[i] = ToLower(c)) - 1)

RECURSIVE NumberOf(_, _)
NumberOf(ds, radix) ==
  IF ds = <<>> THEN 0
  ELSE NumberOf(SubSeq(ds, 1, Len(ds) - 1), radix) * radix + HexValue(ds[Len(ds)])

\* parseInt(string) without a radix: leading white space and one sign are
\* skipped, "0x"/"0X" selects radix 16, the longest prefix of digits is read,
\* and whatever follows is ignored; no digit gives NaN
parseInt(string) ==
  LET s1 == TrimStart(string)
      negative == s1 # <<>> /\ Head(s1) = "-"
      s2 == IF s1 # <<>> /\ Head(s1) \in {"+", "-"} THEN Tail(s1) ELSE s1
      hex == StartsAt(s2, <<"0","x">>, 0) \/ StartsAt(s2, <<"0","X">>, 0)
      s3 == IF hex THEN SubSeq(s2, 3, Len(s2)) ELSE s2
      n == RunLength(s3, 0, IF hex THEN HexDigits ELSE DecimalDigits, TRUE)
      v == NumberOf(SubSeq(s3, 1, n), IF hex THEN 16 ELSE 10)
  IN IF n = 0 THEN [isNaN |-> TRUE, value |-> 0]
     ELSE [isNaN |-> FALSE, value |-> IF negative THEN 0 - v ELSE v]

\* lines 191-204 and 484-493: the 1-based selection, or the rejection
Selection(count, line) ==
  LET selection == parseInt(Trim(line))
  IN IF selection.isNaN \/ selection.value < 1 \/ selection.value > count
     THEN [ok |-> FALSE, error |-> InvalidSelection(count), value |-> 0]
     ELSE [ok |-> TRUE, error |-> NoError, value |-> selection.value]

\* a faulty variant: devices[selection], one past the chosen record
PickDeviceOffByOne(devs, selection) ==
  IF selection + 1 \in DOMAIN devs THEN devs[selection + 1].identifier ELSE Undefined

\* lines 495 and 503: devices[selection - 1].identifier
PickDevice(devs, selection) == devs[selection].identifier

\* line 206: applications[selection - 1]
PickApplication(apps, selection) == apps[selection]

----------------------------------------------------------------------------
(* The external tool                                                       *)

Ok(text) == [ok |-> TRUE, text |-> text, message |-> <<>>]
Failed(message) == [ok |-> FALSE, text |-> <<>>, message |-> message]

DeviceListingResults ==
  { Ok(<<>>),
    Ok(<<"N","o"," ","d","e","v","i","c","e","s"," ","f","o","u","n","d",".">>),
    Ok(JoinLines(<< <<"N","a","m","e"," ","I","d","e","n","t","i","f","i","e","r"," "," ","S",
                      "t","a","t","e"," "," "," "," "," ","M","o","d","e","l">>,
                    <<"-","-","-","-"," ","-","-","-","-","-","-","-","-","-","-","-"," ","-",
                      "-","-","-","-","-","-","-","-"," ","-","-","-","-","-">>,
                    <<"i","P","h"," "," ","0","0","0","0","8","1","1","0","-","A","B"," ","p",
                      "a","i","r","e","d"," "," "," "," ","i","P","h","o","n","e"," ","1","5",
                      " ","P","r","o">> >>)),
    Ok(JoinLines(<< <<"N","a","m","e"," ","I","d","e","n","t","i","f","i","e","r"," "," ","S",
                      "t","a","t","e"," "," "," "," "," ","M","o","d","e","l">>,
                    <<"-","-","-","-"," ","-","-","-","-","-","-","-","-","-","-","-"," ","-",
                      "-","-","-","-","-","-","-","-"," ","-","-","-","-","-">>,
                    <<"i","P","h"," "," ","0","0","0","0","8","1","1","0","-","A","B"," ","p",
                      "a","i","r","e","d"," "," "," "," ","i","P","h","o","n","e"," ","1","5",
                      " ","P","r","o">>,
                    <<" "," "," "," "," ","1","1","1","1","2","2","2","2","-","E","F"," ","c",
                      "o","n","n","e","c","t","e","d"," ","A","p","p","l","e"," ","W","a","t",
                      "c","h">> >>)),
    Ok(JoinLines(<< <<"I","d","e","n","t","i","f","i","e","r",":"," ","0","A","B","-","1">>, <<"N","a","m","e",":"," ","P","h","o","n","e">>,
                    <<"I","d","e","n","t","i","f","i","e","r",":"," ","C","D","-","2">>, <<"P","l","a","t","f","o","r","m",":"," ","i","O","S">> >>)),
    Failed(<<"C","o","m","m","a","n","d"," ","f","a","i","l","e","d",":"," ","x","c","r","u",
             "n"," ","d","e","v","i","c","e","c","t","l"," ","l","i","s","t"," ","d","e","v",
             "i","c","e","s">>),
    Failed(<<"s","p","a","w","n","S","y","n","c"," ","/","b","i","n","/","s","h"," ","E","N",
             "O","E","N","T">>) }

ProcessListingResults ==
  { Ok(<<"7","1"," ","/","p","r","i","v","a","t","e","/","v","a","r","/","c","o","n","t","a",
         "i","n","e","r","s","/","B","u","n","d","l","e","/","A","p","p","l","i","c","a","t",
         "i","o","n","/","A","1","/","G",".","a","p","p","/","G">>),
    Ok(<<"5"," ","/","v","a","r","/","B","u","n","d","l","e","/","A","p","p","l","i","c","a",
         "t","i","o","n","/","B","2","/","N",".","a","p","p">>),
    Ok(JoinLines(<< <<"7","1"," ","/","p","r","i","v","a","t","e","/","v","a","r","/","c","o",
                      "n","t","a","i","n","e","r","s","/","B","u","n","d","l","e","/","A","p",
                      "p","l","i","c","a","t","i","o","n","/","A","1","/","G",".","a","p","p",
                      "/","G">>,
                    <<"7","2"," ","/","p","r","i","v","a","t","e","/","v","a","r","/","c","o",
                      "n","t","a","i","n","e","r","s","/","B","u","n","d","l","e","/","A","p",
                      "p","l","i","c","a","t","i","o","n","/","A","1","/","G",".","a","p","p",
                      "/","P">>,
                    <<"5"," ","/","v","a","r","/","B","u","n","d","l","e","/","A","p","p","l",
                      "i","c","a","t","i","o","n","/","B","2","/","N",".","a","p","p">> >>)),
    Ok(<<"B","u","n","d","l","e","/","A","p","p","l","i","c","a","t","i","o","n","/","A","1",
         "/","b","i","n">>),
    Failed(<<"E","R","R","O","R",":"," ","N","o"," ","m","a","t","c","h","i","n","g"," ","p",
             "r","o","c","e","s","s","e","s"," ","f","o","u","n","d">>),
    Failed(<<"e","r","r","o","r",":"," ","n","o"," ","m","a","t","c","h","i","n","g"," ","p",
             "r","o","c","e","s","s","e","s">>),
    Failed(<<"C","o","m","m","a","n","d"," ","f","a","i","l","e","d",":"," ","g","r","e","p">>) }

LaunchResults ==
  { Ok(<<>>),
    Ok(<<"L","a","u","n","c","h","e","d">>),
    Failed(<<"a","p","p"," ","n","o","t"," ","f","o","u","n","d">>),
    Failed(<<"p","e","r","m","i","s","s","i","o","n"," ","d","e","n","i","e","d">>),
    Failed(<<"C","o","m","m","a","n","d"," ","f","a","i","l","e","d">>) }

\* lines answered to a prompt of the main action
MainAnswers == { <<"1">>, <<"2">>, <<"3">>, <<"0">>, <<"x">>, <<"2","a">>, <<>> }

----------------------------------------------------------------------------
(* The launcher                                                            *)

\* line 238
LaunchCommand(deviceIdentifier, fullPath) ==
  <<"x","c","r","u","n"," ","d","e","v","i","c","e","c","t","l"," ","d","e","v","i","c","e",
    " ","p","r","o","c","e","s","s"," ","l","a","u","n","c","h"," ","-","e"," ","'","{","\"",
    "M","T","L","_","H","U","D","_","E","N","A","B","L","E","D","\"",":"," ","\"","1","\"","}",
    "'"," ","-","-","c","o","n","s","o","l","e"," ","-","-","d","e","v","i","c","e"," ">>
    \o Interpolate(deviceIdentifier) \o <<" ","\"">> \o Interpolate(fullPath) \o <<"\"">>

\* line 569
DryRunCommand(deviceIdentifier, fullPath) ==
  <<"x","c","r","u","n"," ","d","e","v","i","c","e","c","t","l"," ","d","e","v","i","c","e",
    " ","p","r","o","c","e","s","s"," ","l","a","u","n","c","h"," ","-","e"," ","'","{","\"",
    "M","T","L","_","H","U","D","_","E","N","A","B","L","E","D","\"",":"," ","\"","1","\"","}",
    "'"," ","-","-","c","o","n","s","o","l","e"," ","-","-","d","e","v","i","c","e"," ">>
    \o Interpolate(deviceIdentifier) \o <<" ","\"">> \o Interpolate(fullPath) \o <<"\"">>

\* line 64
ProcessesCommand(deviceIdentifier) ==
  <<"x","c","r","u","n"," ","d","e","v","i","c","e","c","t","l"," ","d","e","v","i","c","e",
    " ","i","n","f","o"," ","p","r","o","c","e","s","s","e","s"," ","-","-","d","e","v","i",
    "c","e"," ">>
    \o Interpolate(deviceIdentifier) \o <<" ","|"," ","g","r","e","p"," ","'","B","u","n","d",
                                          "l","e","/","A","p","p","l","i","c","a","t","i","o",
                                          "n","'">>

\* line 31
DevicesCommand == <<"x","c","r","u","n"," ","d","e","v","i","c","e","c","t","l"," ","l","i",
                    "s","t"," ","d","e","v","i","c","e","s">>

\* lines 227-271, under main's try/catch
launchAppWithMetalHUD(st, res) ==
  IF st.selectedApp.fullPath = Undefined
  THEN TopLevelCatch(st, MissingPath)
  ELSE
    LET command == LaunchCommand(st.selectedIdentifier, st.selectedApp.fullPath)
        shown == Log(Log(st, "Launching", st.selectedApp.fullPath),
                     "LaunchCommand", command)
        ran == Exec(shown, "launch", command, res)
    IN IF res.ok
       THEN Return(IF Trim(res.text) # <<>>
                   THEN Log(Log(ran, "Launched", <<>>), "LaunchOutput", res.text)
                   ELSE Log(ran, "Launched", <<>>))
       ELSE
         LET failed == LogError(LogError(ran, "LaunchFailed", <<>>),
                                "Message", res.message)
             hinted == IF Includes(res.message, <<"n","o","t"," ","f","o","u","n","d">>)
                       THEN LogError(failed, "HintNotInstalled", <<>>)
                       ELSE IF Includes(res.message, <<"p","e","r","m","i","s","s","i","o","n">>)
                       THEN LogError(failed, "HintDeveloperMode", <<>>)
                       ELSE failed
         IN TopLevelCatch(hinted, ExecError(res.message))

\* lines 560-571
LaunchStep(st, res) ==
  IF st.options.launch # FALSE
  THEN launchAppWithMetalHUD(st, res)
  ELSE Return(Log(Log(st, "DryRunHeader", <<>>), "DryRunCommand",
                  DryRunCommand(st.selectedIdentifier, st.selectedApp.fullPath)))

----------------------------------------------------------------------------
(* The main action, cut at its blocking calls                              *)

\* lines 555-557, then the launch step waits for the external tool
ApplicationSelected(st, app) ==
  [Log(st, "SelectedApplication", app.bundleId)
     EXCEPT !.selectedApp = app, !.pc = "launch"]

\* lines 153-185: selectApplication up to its prompt
selectApplication(st) ==
  IF Len(st.applications) = 0 THEN TopLevelCatch(st, NothingToSelect)
  ELSE IF Len(st.applications) = 1
  THEN ApplicationSelected(Log(st, "AutoSelectedApplication", <<>>),
                           st.applications[1])
  ELSE [Log(st, "PromptApplication", <<>>) EXCEPT !.pc = "promptApplication"]

\* a faulty variant: every process-listing failure counts as an empty listing
IsNoMatchingProcessesAny(message) == TRUE

\* line 76
IsNoMatchingProcesses(message) == Includes(message, <<"N","o"," ","m","a","t","c","h","i","n",
                                                      "g"," ","p","r","o","c","e","s","s","e",
                                                      "s">>)

\* lines 58-83 and 543-553
ApplicationsStep(st, res) ==
  LET ran == Exec(Log(st, "FetchingApplications", <<>>), "processes",
                  ProcessesCommand(st.selectedIdentifier), res)
      failed == LogError(LogError(ran, "ApplicationsFailed", <<>>),
                         "Message", res.message)
      apps == IF res.ok THEN parseApplicationOutput(res.text) ELSE <<>>
      got == [(IF res.ok THEN ran ELSE Log(failed, "NoApplications", <<>>))
                EXCEPT !.applications = apps,
                       !.output = IF res.ok THEN res.text ELSE @]
  IN IF ~res.ok /\ ~IsNoMatchingProcesses(res.message)
     THEN TopLevelCatch(failed, ExecError(res.message))
     ELSE IF Len(apps) = 0
     THEN Return(Log(Log(got, "NoApplications", <<>>), "HintStartApp", <<>>))
     ELSE selectApplication(got)

\* lines 539-540, then getApplications waits for the external tool
DeviceSelected(st, identifier) ==
  [Log(st, "SelectedIdentifier", identifier)
     EXCEPT !.selectedIdentifier = identifier, !.pc = "getApplications"]

\* lines 450-479: selectDevice up to its prompt
selectDevice(st) ==
  IF Len(st.devices) = 0 THEN TopLevelCatch(st, NothingToSelect)
  ELSE IF Len(st.devices) = 1
  THEN DeviceSelected(Log(st, "AutoSelectedDevice", <<>>),
                      st.devices[1].identifier)
  ELSE [Log(st, "PromptDevice", <<>>) EXCEPT !.pc = "promptDevice"]

\* a faulty variant: the empty listing is not detected
NoDevicesNever(devs) == FALSE

\* line 525
NoDevices(devs) == Len(devs) = 0

\* lines 26-53 and 523-537
DevicesStep(st, res) ==
  LET ran == Exec(Log(st, "FetchingDevices", <<>>), "devices", DevicesCommand, res)
      failed == LogError(LogError(ran, "DevicesFailed", <<>>),
                         "Message", res.message)
      hinted == IF Includes(res.message, <<"c","o","m","m","a","n","d"," ","n","o","t"," ",
                                           "f","o","u","n","d">>)
                   \/ Includes(res.message, <<"x","c","r","u","n">>)
                THEN LogError(LogError(failed, "HintInstallTools", <<>>),
                              "HintInstallCommand", <<>>)
                ELSE failed
      devs == parseDeviceOutput(res.text)
      got == [ran EXCEPT !.devices = devs, !.output = res.text]
  IN IF ~res.ok THEN TopLevelCatch(hinted, ExecError(res.message))
     ELSE IF NoDevices(devs) THEN Return(Log(got, "NoDevices", <<>>))
     ELSE IF st.options.list THEN Return(Log(got, "DeviceList", <<>>))
     ELSE selectDevice(got)

\* lines 481-504: the answer to selectDevice's prompt
DeviceAnswered(st, line) ==
  LET choice == Selection(Len(st.devices), line)
      heard == [st EXCEPT !.answer = line]
  IN IF ~choice.ok THEN TopLevelCatch(heard, choice.error)
     ELSE DeviceSelected(Log(heard, "ChosenDevice", <<>>),
                         PickDevice(st.devices, choice.value))

\* lines 186-216: the answer to selectApplication's prompt
ApplicationAnswered(st, line) ==
  LET choice == Selection(Len(st.applications), line)
      heard == [st EXCEPT !.answer = line]
  IN IF ~choice.ok THEN TopLevelCatch(heard, choice.error)
     ELSE ApplicationSelected(Log(heard, "ChosenApplication", <<>>),
                              PickApplication(st.applications, choice.value))

Init ==
  /\ pc = "getDevices"
  /\ options \in [launch : BOOLEAN, list : BOOLEAN]
  /\ output = <<>>
  /\ devices = <<>>
  /\ applications = <<>>
  /\ selectedIdentifier = Undefined
  /\ selectedApp = NoApplication
  /\ answer = <<>>
  /\ cmds = <<>>
  /\ stdout = <<>>
  /\ stderr = <<>>
  /\ thrown = NoError
  /\ exitCode = -1

GetDevices ==
  /\ pc = "getDevices"
  /\ \E res \in DeviceListingResults : Apply(DevicesStep(State, res))

AnswerDevice ==
  /\ pc = "promptDevice"
  /\ \E line \in MainAnswers : Apply(DeviceAnswered(State, line))

GetApplications ==
  /\ pc = "getApplications"
  /\ \E res \in ProcessListingResults : Apply(ApplicationsStep(State, res))

AnswerApplication ==
  /\ pc = "promptApplication"
  /\ \E line \in MainAnswers : Apply(ApplicationAnswered(State, line))

Launch ==
  /\ pc = "launch"
  /\ \E res \in LaunchResults : Apply(LaunchStep(State, res))

Next ==
  \/ GetDevices
  \/ AnswerDevice
  \/ GetApplications
  \/ AnswerApplication
  \/ Launch

Spec == Init /\ [][Next]_vars

----------------------------------------------------------------------------
(* The parsers and the selections on their own                             *)

InitCommon ==
  /\ options = [launch |-> TRUE, list |-> FALSE]
  /\ devices = <<>>
  /\ applications = <<>>
  /\ selectedIdentifier = Undefined
  /\ selectedApp = NoApplication
  /\ answer = <<>>
  /\ cmds = <<>>
  /\ stdout = <<>>
  /\ stderr = <<>>
  /\ thrown = NoError
  /\ exitCode = -1

InitParseApp ==
  /\ pc = "parseApplications"
  /\ output \in AppOutputs
  /\ InitCommon

ParseApplications ==
  /\ pc = "parseApplications"
  /\ applications' = parseApplicationOutput(output)
  /\ pc' = "parsed"
  /\ UNCHANGED <<options, output, devices, selectedIdentifier, selectedApp,
                 answer, cmds, stdout, stderr, thrown, exitCode>>

NextParseApp == ParseApplications

SpecParseApp == InitParseApp /\ [][NextParseApp]_vars

InitParseDevices ==
  /\ pc = "parseDevices"
  /\ output \in TableOutputs
  /\ InitCommon

ParseDevices ==
  /\ pc = "parseDevices"
  /\ devices' = parseDeviceOutput(output)
  /\ pc' = "parsed"
  /\ UNCHANGED <<options, output, applications, selectedIdentifier, selectedApp,
                 answer, cmds, stdout, stderr, thrown, exitCode>>

NextParseDevices == ParseDevices

SpecParseDevices == InitParseDevices /\ [][NextParseDevices]_vars

InitParseLegacy ==
  /\ pc = "parseLegacy"
  /\ output \in LegacyOutputs
  /\ InitCommon

ParseDevicesLegacy ==
  /\ pc = "parseLegacy"
  /\ devices' = parseDeviceOutputLegacy(output)
  /\ pc' = "parsed"
  /\ UNCHANGED <<options, output, applications, selectedIdentifier, selectedApp,
                 answer, cmds, stdout, stderr, thrown, exitCode>>

NextParseLegacy == ParseDevicesLegacy

SpecParseLegacy == InitParseLegacy /\ [][NextParseLegacy]_vars

\* the records a menu of n entries offers
MenuDevice(i) ==
  [identifier |-> <<"0","0","0","0","8","1","1","0","-","D","E","V">> \o <<Digits[i + 1]>>, name |-> Undefined,
   platform |-> <<"i","O","S">>, connectionType |-> <<"p","a","i","r","e","d">>]

MenuApplication(i) ==
  [bundleId |-> <<"c","o","m",".","a","p","p">> \o <<Digits[i + 1]>>, displayName |-> <<"G",".","a","p","p">>,
   pid |-> Undefined, fullPath |-> Undefined]

AnswerAlphabet == {"0", "1", "2", "3", "4", "x", "a", " ", "-"}

AnswerLines == SeqsUpTo(AnswerAlphabet, MaxAnswerLen)

InitSelect ==
  /\ pc \in {"selectDevice", "selectApplication"}
  /\ \E n \in 0..MaxRecords :
       /\ devices = [i \in 1..n |-> MenuDevice(i)]
       /\ applications = [i \in 1..n |-> MenuApplication(i)]
  /\ answer \in AnswerLines
  /\ options = [launch |-> TRUE, list |-> FALSE]
  /\ output = <<>>
  /\ selectedIdentifier = Undefined
  /\ selectedApp = NoApplication
  /\ cmds = <<>>
  /\ stdout = <<>>
  /\ stderr = <<>>
  /\ thrown = NoError
  /\ exitCode = -1

\* selectDevice (lines 450-506) with `answer` waiting on the terminal
SelectDevice ==
  /\ pc = "selectDevice"
  /\ LET choice == Selection(Len(devices), answer)
     IN IF Len(devices) = 0
        THEN /\ thrown' = NothingToSelect
             /\ pc' = "rejected"
             /\ UNCHANGED <<selectedIdentifier, stdout>>
        ELSE IF Len(devices) = 1
        THEN /\ selectedIdentifier' = devices[1].identifier
             /\ pc' = "selected"
             /\ UNCHANGED <<thrown, stdout>>
        ELSE /\ stdout' = Append(stdout, [tag |-> "PromptDevice", text |-> <<>>])
             /\ IF choice.ok
                THEN /\ selectedIdentifier' = PickDevice(devices, choice.value)
                     /\ pc' = "selected"
                     /\ UNCHANGED thrown
                ELSE /\ thrown' = choice.error
                     /\ pc' = "rejected"
                     /\ UNCHANGED selectedIdentifier
  /\ UNCHANGED <<options, output, devices, applications, selectedApp, answer,
                 cmds, stderr, exitCode>>

\* selectApplication (lines 153-218) with `answer` waiting on the terminal
SelectApplication ==
  /\ pc = "selectApplication"
  /\ LET choice == Selection(Len(applications), answer)
     IN IF Len(applications) = 0
        THEN /\ thrown' = NothingToSelect
             /\ pc' = "rejected"
             /\ UNCHANGED <<selectedApp, stdout>>
        ELSE IF Len(applications) = 1
        THEN /\ selectedApp' = applications[1]
             /\ pc' = "selected"
             /\ UNCHANGED <<thrown, stdout>>
        ELSE /\ stdout' = Append(stdout, [tag |-> "PromptApplication", text |-> <<>>])
             /\ IF choice.ok
                THEN /\ selectedApp' = PickApplication(applications, choice.value)
                     /\ pc' = "selected"
                     /\ UNCHANGED thrown
                ELSE /\ thrown' = choice.error
                     /\ pc' = "rejected"
                     /\ UNCHANGED selectedApp
  /\ UNCHANGED <<options, output, devices, applications, selectedIdentifier,
                 answer, cmds, stderr, exitCode>>

NextSelect == SelectDevice \/ SelectApplication

SpecSelect == InitSelect /\ [][NextSelect]_vars

----------------------------------------------------------------------------
(* Properties                                                              *)

Tags(log) == {log[i].tag : i \in DOMAIN log}

CountTag(log, tag) == Cardinality({i \in DOMAIN log : log[i].tag = tag})

Identifiers(devs) == {devs[i].identifier : i \in DOMAIN devs}

CommandOrder == <<"devices", "processes", "launch">>

NoMatchingText == <<"N","o"," ","m","a","t","c","h","i","n","g"," ","p","r","o","c","e","s",
                    "s","e","s">>

\* C1: external commands are issued in the order device listing, process
\* listing, launch, each at most once; the process listing is issued for an
\* identifier selected from this run's device listing, the launch for an
\* application selected from the process listing of that device; and after a
\* failed command (other than a process listing that reports no matching
\* processes) no further command is issued.
C1_CommandOrder ==
  /\ Len(cmds) <= Len(CommandOrder)
  /\ \A i \in DOMAIN cmds : cmds[i].kind = CommandOrder[i]
  /\ Len(cmds) >= 2 =>
       /\ cmds[1].ok
       /\ selectedIdentifier \in Identifiers(devices)
       /\ Includes(cmds[2].command, selectedIdentifier)
  /\ Len(cmds) >= 3 =>
       /\ cmds[2].ok
       /\ \E a \in DOMAIN applications : applications[a] = selectedApp
       /\ Includes(cmds[2].command, selectedIdentifier)
       /\ Includes(cmds[3].command, selectedIdentifier)
       /\ Includes(cmds[3].command, selectedApp.fullPath)
  /\ \A i \in DOMAIN cmds :
       (~cmds[i].ok /\ ~(cmds[i].kind = "processes"
                         /\ Includes(cmds[i].message, NoMatchingText)))
         => i = Len(cmds)

\* a run that prompted twice and issued all three commands
C1_Witness ==
  /\ pc = "exited"
  /\ Len(cmds) = 3
  /\ Len(devices) > 1
  /\ Len(applications) > 1

\* the launch step was reached with this application
LaunchStepDone == pc = "exited" /\ selectedApp # NoApplication

\* C2: launching an application whose fullPath is unset fails with the
\* missing-path error in both launch modes, and no launch command is run or
\* rendered as the command to run.
C2_MissingPathFails ==
  (LaunchStepDone /\ selectedApp.fullPath = Undefined) =>
     /\ thrown = MissingPath
     /\ \A i \in DOMAIN cmds : cmds[i].kind # "launch"
     /\ Tags(stdout) \cap {"LaunchCommand", "DryRunCommand"} = {}

\* the launch commands execute mode issues from the present selection
ExecuteModeCommands ==
  LET run == launchAppWithMetalHUD(State, Ok(<<>>))
  IN {run.cmds[i].command : i \in {j \in DOMAIN run.cmds : run.cmds[j].kind = "launch"}}

\* C3: in dry-run mode no launch command is spawned, and the command string
\* displayed is exactly the one execute mode would have run for the same
\* device identifier and application; it contains the device identifier, the
\* application's fullPath and the assignment MTL_HUD_ENABLED = "1".
C3_DryRunShowsExecuteCommand ==
  (LaunchStepDone /\ options.launch = FALSE) =>
     /\ \A i \in DOMAIN cmds : cmds[i].kind # "launch"
     /\ CountTag(stdout, "DryRunCommand") = 1
     /\ \A i \in DOMAIN stdout :
          stdout[i].tag = "DryRunCommand" =>
            /\ ExecuteModeCommands = {stdout[i].text}
            /\ selectedApp.fullPath # Undefined
            /\ Includes(stdout[i].text, selectedIdentifier)
            /\ Includes(stdout[i].text, selectedApp.fullPath)
            /\ Includes(stdout[i].text, <<"\"","M","T","L","_","H","U","D","_","E","N","A","B",
                                          "L","E","D","\"",":"," ","\"","1","\"">>)

SuccessTags == {"Launched", "LaunchOutput", "DryRunCommand"}
InformationalTags == {"NoDevices", "DeviceList", "HintStartApp"}

\* the error conditions of a run, read off what happened in it
DeviceDiscoveryFailed == Len(cmds) >= 1 /\ ~cmds[1].ok
ProcessDiscoveryFailed ==
  Len(cmds) >= 2 /\ ~cmds[2].ok /\ ~Includes(cmds[2].message, NoMatchingText)
DeviceInputRejected ==
  "PromptDevice" \in Tags(stdout) /\ selectedIdentifier = Undefined
ApplicationInputRejected ==
  "PromptApplication" \in Tags(stdout) /\ selectedApp = NoApplication
\* launchAppWithMetalHUD was called for an application without fullPath
MissingPathOnLaunch ==
  selectedApp # NoApplication /\ selectedApp.fullPath = Undefined /\ options.launch
LaunchFailed == Len(cmds) >= 3 /\ ~cmds[3].ok

C5_NoMatchingIsEmpty ==
  (Len(cmds) >= 2 /\ ~cmds[2].ok) =>
     /\ pc = "exited"
     /\ Len(cmds) = 2
     /\ selectedApp = NoApplication
     /\ Tags(stdout) \cap {"PromptApplication", "AutoSelectedApplication"} = {}
     /\ IF Includes(cmds[2].message, NoMatchingText)
        THEN /\ applications = <<>>
             /\ thrown = NoError
             /\ exitCode = 0
             /\ "NoApplications" \in Tags(stdout)
        ELSE /\ thrown = ExecError(cmds[2].message)
             /\ exitCode = 1

\* the process listing failed reporting no matching processes
C5_Witness ==
  /\ Len(cmds) = 2
  /\ ~cmds[2].ok
  /\ Includes(cmds[2].message, NoMatchingText)
  /\ exitCode = 0

\* C6: when device discovery returns zero records the run prints an
\* informational message and exits 0 without reaching device selection,
\* process discovery or launch, whatever --list and --no-launch are.
C6_NoDevicesShortCircuit ==
  (Len(cmds) >= 1 /\ cmds[1].ok /\ Len(devices) = 0) =>
     /\ pc = "exited"
     /\ exitCode = 0
     /\ thrown = NoError
     /\ "NoDevices" \in Tags(stdout)
     /\ Tags(stdout) \cap {"PromptDevice", "AutoSelectedDevice", "DeviceList"} = {}
     /\ selectedIdentifier = Undefined
     /\ Len(cmds) = 1

\* an empty listing met with --list and --no-launch both given
C6_Witness ==
  /\ Len(cmds) = 1
  /\ cmds[1].ok
  /\ devices = <<>>
  /\ options.list
  /\ ~options.launch
  /\ pc = "exited"

\* the line holds digits only
IsDigitLine(line) == line # <<>> /\ \A i \in DOMAIN line : IsDigit(line[i])

\* C7: over N > 1 records the answer is accepted only if it is a line of
\* digits denoting k with 1 <= k <= N, and then the k-th record is returned
\* (its identifier for devices, the record for applications); every other
\* answer is rejected with the error naming the range 1..N, after one prompt.
C7_OnlyDigitLinesAccepted ==
  LET n == IF "PromptDevice" \in Tags(stdout) THEN Len(devices) ELSE Len(applications)
      line == Trim(answer)
      k == NumberOf(line, 10)
      valid == IsDigitLine(line) /\ 1 <= k /\ k <= n
  IN (pc \in {"selected", "rejected"} /\ n > 1) =>
       /\ Len(stdout) = 1
       /\ valid => /\ pc = "selected"
                   /\ "PromptDevice" \in Tags(stdout)
                        => selectedIdentifier = devices[k].identifier
                   /\ "PromptApplication" \in Tags(stdout)
                        => selectedApp = applications[k]
       /\ ~valid => /\ pc = "rejected"
                    /\ thrown = InvalidSelection(n)

\* what one line of a process listing holds: whether the bundle pattern
\* matches its trimmed text and, if so, the matched parts
AppLineInfo(line) ==
  LET t == Trim(line)
      m == BundleMatch(t, BundlePrefix)
      path == BundleMatch(t, ContainerPrefix)
      digits == PidMatch(t)
  IN IF t = <<>> \/ ~m.matched
     THEN [matched |-> FALSE, bundleId |-> <<>>, appName |-> <<>>,
           pid |-> Undefined, fullPath |-> Undefined]
     ELSE [matched |-> TRUE, bundleId |-> m.bundleId, appName |-> m.appName,
           pid |-> IF digits.matched THEN digits.digits ELSE Undefined,
           fullPath |-> IF path.matched THEN path.whole ELSE Undefined]

RECURSIVE AppLineInfos(_)
AppLineInfos(lines) ==
  IF lines = <<>> THEN <<>>
  ELSE <<AppLineInfo(Head(lines))>> \o AppLineInfos(Tail(lines))

\* the matching lines whose bundle identifier no earlier matching line has
FirstOccurrences(info) ==
  {i \in DOMAIN info :
     /\ info[i].matched
     /\ \A j \in 1..(i - 1) :
          info[j].matched => info[j].bundleId # info[i].bundleId}

\* C8: the records of parseApplicationOutput have pairwise distinct bundle
\* identifiers, stand in order of first occurrence, and each carries the
\* displayName, pid and fullPath of the first matching line with its bundle
\* identifier.
C8_FirstOccurrenceKept ==
  pc = "parsed" =>
     LET info == AppLineInfos(SplitLines(output))
         first == FirstOccurrences(info)
     IN /\ \A a, b \in DOMAIN applications :
             a # b => applications[a].bundleId # applications[b].bundleId
        /\ Len(applications) = Cardinality(first)
        /\ \A i \in first :
             LET r == Cardinality({j \in first : j < i}) + 1
             IN /\ applications[r].bundleId = info[i].bundleId
                /\ applications[r].displayName = info[i].appName
                /\ applications[r].pid = info[i].pid
                /\ applications[r].fullPath = info[i].fullPath

\* two lines of one bundle identifier with different process ids, and a
\* second application
C8_Witness ==
  /\ pc = "parsed"
  /\ Len(applications) = 2
  /\ LET info == AppLineInfos(SplitLines(output))
     IN \E i, j \in DOMAIN info :
          /\ i < j
          /\ info[i].matched
          /\ info[j].matched
          /\ info[i].bundleId = info[j].bundleId
          /\ info[i].pid # info[j].pid

\* the 0-based indexes, from `first` on, of the non-blank lines whose sliced,
\* trimmed identifier is longer than 10 characters
RowsFrom(lines, cols, first) ==
  {i \in first..(Len(lines) - 1) :
     /\ Trim(lines[i + 1]) # <<>>
     /\ Len(Trim(Substring(lines[i + 1], cols.identifierColStart,
                           cols.stateColStart))) > IdentifierMinLength}

\* the result holds, in line order, one record per row of `rows`, sliced at
\* the header's column offsets
RecordsAre(lines, cols, rows) ==
  /\ Len(devices) = Cardinality(rows)
  /\ \A i \in rows :
       LET r == Cardinality({j \in rows : j < i}) + 1
           line == lines[i + 1]
           name == Trim(Substring(line, cols.nameColStart, cols.identifierColStart))
       IN /\ devices[r].identifier
               = Trim(Substring(line, cols.identifierColStart, cols.stateColStart))
          /\ devices[r].name = (IF name = <<>> THEN Undefined ELSE name)
          /\ devices[r].platform
               = extractPlatformFromModel(
                   Trim(Substring(line, cols.modelColStart, Len(line))))

\* with the header at 0-based index h, the rows from h + skip on are the
\* records
TabularFrom(skip) ==
  LET lines == SplitLines(output)
      h == HeaderLineIndex(lines)
      cols == HeaderColumns(lines[h + 1])
  IN (pc = "parsed" /\ h # -1) =>
        RecordsAre(lines, cols, RowsFrom(lines, cols, h + skip))

\* C9 as stated: every non-blank line after the header, the line directly
\* after it included, yields a record iff its sliced identifier is longer
\* than 10 characters.
C9_EveryLineAfterHeader == TabularFrom(1)

\* C9 amended: the line directly after the header is skipped; every non-blank
\* line from the second line after the header on yields a record iff its
\* sliced, trimmed identifier is longer than 10 characters, in line order.
C9_LinesAfterSeparator == TabularFrom(2)

\* a header, a row in the separator's place that is skipped, and two rows
\* that are kept
C9_Witness ==
  LET lines == SplitLines(output)
      h == HeaderLineIndex(lines)
      cols == HeaderColumns(lines[h + 1])
  IN /\ pc = "parsed"
     /\ h # -1
     /\ h + 1 \in RowsFrom(lines, cols, h + 1)
     /\ Len(devices) = 2

LegacyFields == {"name", "platform", "connectionType"}

\* what one line of a legacy listing holds: the field its trimmed text sets,
\* by the precedence Identifier, Name, Platform, Connection Type, and the
\* value
LegacyLineInfo(line) ==
  LET t == Trim(line)
  IN IF identifierRegex(t).matched
     THEN [field |-> "identifier", value |-> identifierRegex(t).value]
     ELSE IF nameRegex(t).matched
     THEN [field |-> "name", value |-> nameRegex(t).value]
     ELSE IF platformRegex(t).matched
     THEN [field |-> "platform", value |-> platformRegex(t).value]
     ELSE IF connectionRegex(t).matched
     THEN [field |-> "connectionType", value |-> connectionRegex(t).value]
     ELSE [field |-> "none", value |-> <<>>]

RECURSIVE LegacyLineInfos(_)
LegacyLineInfos(lines) ==
  IF lines = <<>> THEN <<>>
  ELSE <<LegacyLineInfo(Head(lines))>> \o LegacyLineInfos(Tail(lines))

\* the lines on which the Identifier pattern matches
IdentifierLines(info) == {i \in DOMAIN info : info[i].field = "identifier"}

\* the Identifier line that opens the r-th record
Opener(info, r) ==
  CHOOSE i \in IdentifierLines(info) :
    Cardinality({j \in IdentifierLines(info) : j < i}) = r - 1

\* the lines between the r-th Identifier line and the next one that set f
Setters(info, r, f) ==
  {j \in DOMAIN info :
     /\ j > Opener(info, r)
     /\ info[j].field = f
     /\ \A i \in IdentifierLines(info) : i > Opener(info, r) => j < i}

\* C10: legacy parsing gives one record per Identifier line (a line the
\* Identifier pattern matches), in encounter order, each with a non-empty
\* identifier; a Name, Platform or Connection Type line sets its field on the
\* record opened by the nearest preceding Identifier line and on no other,
\* and such lines before the first Identifier line are ignored.
C10_LegacyBlocks ==
  pc = "parsed" =>
     LET info == LegacyLineInfos(SplitLines(output))
     IN /\ Len(devices) = Cardinality(IdentifierLines(info))
        /\ \A r \in DOMAIN devices :
             /\ devices[r].identifier = info[Opener(info, r)].value
             /\ devices[r].identifier # <<>>
             /\ devices[r].identifier # Undefined
             /\ \A f \in LegacyFields :
                  LET setters == Setters(info, r, f)
                  IN devices[r][f] =
                       (IF setters = {} THEN Undefined
                        ELSE info[CHOOSE j \in setters : \A x \in setters : x <= j].value)

\* a Name line before the first Identifier line, a first record with a name
\* and a second one without
C10_Witness ==
  /\ pc = "parsed"
  /\ Len(devices) = 2
  /\ LegacyLineInfo(SplitLines(output)[1]).field = "name"
  /\ devices[1].name # Undefined
  /\ devices[2].name = Undefined

====
